---- MODULE Spec2Model ----
(***************************************************************************)
(* River: a one-note-per-day journal.  This module models                  *)
(*   - the editor session of internal/editor (Model, NewInitialModel,      *)
(*     Update, loadStats, saveStats, saveFile): the Activity Clock and the *)
(*     per-day sidecar it flushes into;                                    *)
(*   - the aggregation passes of stats.go (collectAllStats) and of         *)
(*     internal/statsui/stats.go (collectStats) with their streak and      *)
(*     week/month bucket computations;                                     *)
(*   - the Content Filter: processGhostText and countWords of the editor,  *)
(*     loadTodayFile of the older editor, countWords of stats.go and      *)
(*     removeHTMLComments of internal/statsui, on notes kept as sequences *)
(*     of characters;                                                     *)
(*   - editor processes that share the day's note and sidecar, with the   *)
(*     two steps of os.WriteFile;                                         *)
(*   - the View of the stats.go dashboard and the averages of its tabs;   *)
(*   - corpora with files the passes skip, sidecars that cannot be read   *)
(*     or parsed, a notes directory that cannot be listed, and passes     *)
(*     repeated with the order of their map ranges left open.             *)
(* Time is counted in whole seconds, dates in days since 1970-01-01.       *)
(***************************************************************************)
EXTENDS Integers, Sequences, FiniteSets, TLC

(***************************************************************************)
(* Bounds of the model                                                     *)
(***************************************************************************)
\* last second of the clock of the editor specification
MaxNow == 61
\* number of editor sessions launched one after another on the same day
MaxSessions == 2

\* number of consecutive days a corpus of the streak specification covers
WindowLen == 6
\* number of older weeks a corpus of the week specification reaches back
MaxOldWeeks == 7
\* longest run of consecutive days a corpus of the bucket specification holds
MaxRunDays == 33
\* number of lines of a note of the filter specification
MaxLines == 4
\* last second of the clock that concurrent editor processes tick on
MaxConcNow == 1

(***************************************************************************)
(* Program constants                                                       *)
(***************************************************************************)
\* time.Minute, the idle cutoff of the tick handler, in seconds
IdleCutoff == 60
\* time.Second, the period of tickCmd, in seconds
TickPeriod == 1

\* the first seconds of the day's clock that events arrive at
EarlyMax == 1
\* the instants events arrive at: the first seconds, and the seconds around
\* the idle cutoff after them
ClockPoints == (0..EarlyMax) \cup ((IdleCutoff - 1)..MaxNow)

\* weeks calculateWeeklyData keeps, months calculateMonthlyData keeps
KeepWeeks == 8
KeepMonths == 6

\* word counts a note of the corpus takes
WordChoices == {0, 3, 5}

\* word counts the edited buffer takes
BufferWords == {0, 2}

\* an aggregation pass that has not run
None == [ran |-> FALSE]

Missing == [typing_seconds |-> -1, word_count |-> -1]
\* no pass has been repeated
NoPass == [all |-> None, ui |-> None]
\* a sidecar that os.ReadFile cannot read, and one that toml.Unmarshal rejects
NoAccess == [typing_seconds |-> -2, word_count |-> -2]
Malformed == [typing_seconds |-> -3, word_count |-> -3]

VARIABLES
    now,            \* wall clock, seconds
    running,        \* an editor process is alive
    sessions,       \* number of editor processes launched so far
    lastActivity,   \* Model.lastActivity
    typingTime,     \* Model.typingTime, seconds
    modified,       \* Model.modified
    wordCount,      \* Model.wordCount
    tickDue,        \* earliest time the pending tickMsg is delivered
    statsFile,      \* the day's sidecar: Missing or the stats record
    noteFile,       \* word count of the day's note file, -1 when absent
    lastEvent,      \* the handler that ran last
    hist,           \* history of the clock, for stating the claims
    files,          \* the notes directory: the listing of its note files
    today,          \* the local date, days since 1970-01-01
    allStats,       \* result of collectAllStats (stats.go)
    uiStats,        \* result of collectStats (internal/statsui)
    ghostModel,     \* what the editor loaded from today's note
    promptModel,    \* what the older editor loaded from today's note
    procs,          \* the editor processes that share today's files
    durable,        \* seconds of the last flush of today's sidecar that ended
    view,           \* what the stats dashboard of stats.go rendered last
    notesDir,       \* how the notes directory answers a listing
    firstPass       \* what the first passes returned, once a pass is repeated

editorVars == <<now, running, sessions, lastActivity, typingTime, modified,
                wordCount, tickDue, statsFile, noteFile, lastEvent, hist>>

concVars == <<procs, durable>>

aggVars == <<files, today, allStats, uiStats, ghostModel, promptModel,
             view, notesDir, firstPass, concVars>>

vars == <<editorVars, aggVars>>

(***************************************************************************)
(* Sidecar I/O                                                             *)
(***************************************************************************)
\* loadStats: the persisted duration; zero when the sidecar is absent, and
\* zero next to an error, which NewInitialModel drops, when os.ReadFile or
\* toml.Unmarshal fails
loadStats_Raw(file) == IF file = Missing THEN 0 ELSE file.typing_seconds
loadStats(file) ==
    IF file \in {Missing, NoAccess, Malformed} THEN 0
    ELSE file.typing_seconds

\* os.WriteFile of the sidecar: a file that cannot be opened stays as it is,
\* and the handlers drop the error
WriteStats(file, record) == IF file = NoAccess THEN file ELSE record

\* saveStats: the record written to the sidecar
saveStats(tt, wc) == [typing_seconds |-> tt, word_count |-> wc]

\* the tick handler's idle test
TickAccrues_Inclusive(t, last) == t - last <= IdleCutoff
TickAccrues_Always(t, last) == TRUE
TickAccrues(t, last) == t - last < IdleCutoff

\* the quit handler's condition for flushing note and sidecar
QuitFlushes(m) == m

\* the editor processes of the day
Procs == {"a", "b"}

\* an editor process that has not been started, and one that has exited
NoProc ==
    [running |-> FALSE, lastActivity |-> 0, typingTime |-> 0,
     modified |-> FALSE, wordCount |-> 0, tickDue |-> 0,
     pc |-> "start", pending |-> Missing, quitting |-> FALSE]
Exited == [NoProc EXCEPT !.pc = "exited"]

HistInit(seed, t) ==
    [ seed      |-> seed,    \* duration the session started from
      start     |-> t,       \* time the session started
      accrued   |-> 0,       \* seconds accrued by all sessions so far
      active    |-> 0,       \* ticks of this session that arrived in time
      lastTick  |-> t,       \* time of the last tick (or session start)
      ticksLe59 |-> TRUE,    \* all ticks so far came at most 59 s apart
      ticksEq1  |-> TRUE,    \* all ticks so far came exactly 1 s apart
      keysLe60  |-> TRUE,    \* no keystroke gap so far exceeded 60 s
      allInTime |-> TRUE,    \* all ticks so far came under 60 s after a key
      lateAdded |-> 0,       \* seconds added 60 s or more after the last key
      gapAdded  |-> 0,       \* seconds added since the last keystroke
      endedGap  |-> 0,       \* length of the gap the last keystroke ended
      endedAdded |-> 0 ]     \* seconds that were added during that gap

Init ==
    /\ now = 0
    /\ running = FALSE
    /\ sessions = 0
    /\ lastActivity = 0
    /\ typingTime = 0
    /\ modified = FALSE
    /\ wordCount = 0
    /\ tickDue = 0
    /\ statsFile = Missing
    /\ noteFile = -1
    /\ lastEvent = "none"
    /\ hist = HistInit(0, 0)
    /\ files = <<>>
    /\ today = 0
    /\ allStats = None
    /\ uiStats = None
    /\ ghostModel = None
    /\ promptModel = None
    /\ view = None
    /\ notesDir = "ok"
    /\ firstPass = NoPass
    /\ procs = [p \in Procs |-> NoProc]
    /\ durable = 0

\* the wall clock moves on
Advance ==
    /\ UNCHANGED aggVars
    /\ \E t \in ClockPoints :
         /\ t > now
         /\ now' = t
    /\ lastEvent' = "advance"
    /\ UNCHANGED <<running, sessions, lastActivity, typingTime, modified,
                   wordCount, tickDue, statsFile, noteFile, hist>>

\* NewInitialModel followed by Init: a new editor process for today
NewInitialModel ==
    /\ UNCHANGED aggVars
    /\ ~running
    /\ sessions < MaxSessions
    /\ running' = TRUE
    /\ sessions' = sessions + 1
    /\ lastActivity' = now
    /\ typingTime' = loadStats(statsFile)
    /\ modified' = FALSE
    /\ wordCount' = IF noteFile = -1 THEN 0 ELSE noteFile
    /\ tickDue' = now + TickPeriod
    /\ lastEvent' = "launch"
    /\ hist' = [HistInit(loadStats(statsFile), now) EXCEPT !.accrued = hist.accrued]
    /\ UNCHANGED <<now, statsFile, noteFile>>

\* Update, case tickMsg
Tick ==
    /\ UNCHANGED aggVars
    /\ running
    /\ now >= tickDue
    /\ typingTime' = IF TickAccrues(now, lastActivity)
                     THEN typingTime + TickPeriod ELSE typingTime
    /\ tickDue' = now + TickPeriod
    /\ lastEvent' = "tick"
    /\ LET inTime == now - lastActivity < IdleCutoff IN
       hist' = [hist EXCEPT
                  !.accrued   = @ + (typingTime' - typingTime),
                  !.active    = IF inTime THEN @ + 1 ELSE @,
                  !.lastTick  = now,
                  !.ticksLe59 = @ /\ now - hist.lastTick <= 59,
                  !.ticksEq1  = @ /\ now - hist.lastTick = 1,
                  !.keysLe60  = @ /\ now - lastActivity <= 60,
                  !.allInTime = @ /\ inTime,
                  !.lateAdded = IF inTime THEN @
                                ELSE @ + (typingTime' - typingTime),
                  !.gapAdded  = @ + (typingTime' - typingTime)]
    /\ UNCHANGED <<now, running, sessions, lastActivity, modified, wordCount,
                   statsFile, noteFile>>

\* Update, case tea.WindowSizeMsg: only the layout changes
WindowSize ==
    /\ UNCHANGED aggVars
    /\ running
    /\ lastEvent' = "resize"
    /\ UNCHANGED <<now, running, sessions, lastActivity, typingTime, modified,
                   wordCount, tickDue, statsFile, noteFile, hist>>

\* what every tea.KeyMsg does first: m.lastActivity = time.Now()
KeyHist ==
    [hist EXCEPT !.keysLe60   = @ /\ now - lastActivity <= 60,
                 !.endedGap   = now - lastActivity,
                 !.endedAdded = hist.gapAdded,
                 !.gapAdded   = 0]

\* Update, case tea.KeyMsg, default: the textarea takes the key
KeyEdit ==
    /\ UNCHANGED aggVars
    /\ running
    /\ lastActivity' = now
    /\ \E w \in BufferWords : wordCount' = w
    /\ modified' = TRUE
    /\ lastEvent' = "key"
    /\ hist' = KeyHist
    /\ UNCHANGED <<now, running, sessions, typingTime, tickDue, statsFile,
                   noteFile>>

\* Update, case tea.KeyCtrlS
KeySave ==
    /\ UNCHANGED aggVars
    /\ running
    /\ lastActivity' = now
    /\ \E ok \in BOOLEAN :
         /\ noteFile' = IF ok THEN wordCount ELSE noteFile
         /\ modified' = IF ok THEN FALSE ELSE modified
    /\ statsFile' = WriteStats(statsFile, saveStats(typingTime, wordCount))
    /\ lastEvent' = "save"
    /\ hist' = KeyHist
    /\ UNCHANGED <<now, running, sessions, typingTime, wordCount, tickDue>>

\* Update, case tea.KeyCtrlC, tea.KeyEsc
KeyQuit ==
    /\ UNCHANGED aggVars
    /\ running
    /\ lastActivity' = now
    /\ IF QuitFlushes(modified)
       THEN /\ \E ok \in BOOLEAN : noteFile' = IF ok THEN wordCount ELSE noteFile
            /\ statsFile' =
                 WriteStats(statsFile, saveStats(typingTime, wordCount))
       ELSE UNCHANGED <<noteFile, statsFile>>
    /\ running' = FALSE
    /\ lastEvent' = "quit"
    /\ hist' = KeyHist
    /\ UNCHANGED <<now, sessions, typingTime, modified, wordCount, tickDue>>

Next ==
    \/ Advance
    \/ NewInitialModel
    \/ Tick
    \/ WindowSize
    \/ KeyEdit
    \/ KeySave
    \/ KeyQuit

Spec == Init /\ [][Next]_vars

\* the first editor process of the day finds a sidecar that it cannot read
\* or cannot decode
InitSidecar ==
    /\ now = 0
    /\ running = FALSE
    /\ sessions = 0
    /\ lastActivity = 0
    /\ typingTime = 0
    /\ modified = FALSE
    /\ wordCount = 0
    /\ tickDue = 0
    /\ statsFile \in {NoAccess, Malformed}
    /\ noteFile = -1
    /\ lastEvent = "none"
    /\ hist = HistInit(0, 0)
    /\ files = <<>>
    /\ today = 0
    /\ allStats = None
    /\ uiStats = None
    /\ ghostModel = None
    /\ promptModel = None
    /\ view = None
    /\ notesDir = "ok"
    /\ firstPass = NoPass
    /\ procs = [p \in Procs |-> NoProc]
    /\ durable = 0

SpecSidecar == InitSidecar /\ [][Next]_vars

(***************************************************************************)
(* Calendar: time.Parse, Time.Format, Time.Weekday, Time.AddDate on dates  *)
(***************************************************************************)
\* Time.Format("2006-01-02"): the <<year, month, day>> of a day number
FormatDate(d) ==
    LET z   == d + 719468
        era == z \div 146097
        doe == z - era * 146097
        yoe == (doe - doe \div 1460 + doe \div 36524 - doe \div 146096) \div 365
        doy == doe - (365 * yoe + yoe \div 4 - yoe \div 100)
        mp  == (5 * doy + 2) \div 153
        dd  == doy - (153 * mp + 2) \div 5 + 1
        mm  == IF mp < 10 THEN mp + 3 ELSE mp - 9
        yy  == yoe + era * 400 + (IF mm <= 2 THEN 1 ELSE 0)
    IN  <<yy, mm, dd>>

\* time.Parse("2006-01-02", name): the day number of a <<year, month, day>>
ParseDate(name) ==
    LET y   == IF name[2] <= 2 THEN name[1] - 1 ELSE name[1]
        era == y \div 400
        yoe == y - era * 400
        mp  == IF name[2] > 2 THEN name[2] - 3 ELSE name[2] + 9
        doy == (153 * mp + 2) \div 5 + name[3] - 1
        doe == yoe * 365 + yoe \div 4 - yoe \div 100 + doy
    IN  era * 146097 + doe - 719468

\* the dates the corpora are built around, as days since 1970-01-01
Day20231231 == ParseDate(<<2023, 12, 31>>)
Day20240101 == ParseDate(<<2024, 1, 1>>)
Day20240106 == ParseDate(<<2024, 1, 6>>)
Day20240107 == ParseDate(<<2024, 1, 7>>)
Day20240110 == ParseDate(<<2024, 1, 10>>)
Day20240128 == ParseDate(<<2024, 1, 28>>)

\* daysIn of package time: the length of month m of year y
daysIn(m, y) ==
    IF m = 2
    THEN IF y % 4 = 0 /\ (y % 100 # 0 \/ y % 400 = 0) THEN 29 ELSE 28
    ELSE IF m \in {4, 6, 9, 11} THEN 30 ELSE 31

\* time.Parse("2006-01-02", name) returns no error: the month and the day
\* are in range ("month out of range", "day out of range" otherwise)
ParseOk_Lenient(name) == TRUE
ParseOk(name) ==
    /\ name[2] \in 1..12
    /\ name[3] >= 1
    /\ name[3] <= daysIn(name[2], name[1])

\* Time.Format("Jan 2, 2006"): month name, day and year of a day number
MonthNames == <<"Jan", "Feb", "Mar", "Apr", "May", "Jun",
                "Jul", "Aug", "Sep", "Oct", "Nov", "Dec">>
FormatJan2(d) ==
    <<MonthNames[FormatDate(d)[2]], FormatDate(d)[3], FormatDate(d)[1]>>

\* Time.Format("2006-01"): the month key of a day number
FormatMonth_Year(d) == <<FormatDate(d)[1], 1>>
FormatMonth(d) == <<FormatDate(d)[1], FormatDate(d)[2]>>

\* Time.Weekday: 0 is time.Sunday
Weekday(d) == (d + 4) % 7

\* the loop "for weekStart.Weekday() != time.Sunday { AddDate(0, 0, -1) }"
RECURSIVE WeekStart_Monday(_)
WeekStart_Monday(d) == IF Weekday(d) = 1 THEN d ELSE WeekStart_Monday(d - 1)
RECURSIVE WeekStart(_)
WeekStart(d) == IF Weekday(d) = 0 THEN d ELSE WeekStart(d - 1)

(***************************************************************************)
(* Text: strings as sequences of characters, and the functions of package  *)
(* strings the program calls                                               *)
(***************************************************************************)
\* unicode.IsSpace on the characters of the model
IsSpace(c) == c \in {" ", "\n", "\t"}

\* strings.Index: the 0-based position of the first p in s, -1 if none
Index(s, p) ==
    LET hits == {i \in 0..(Len(s) - Len(p)) : SubSeq(s, i + 1, i + Len(p)) = p}
    IN  IF hits = {} THEN -1 ELSE CHOOSE i \in hits : \A j \in hits : i <= j

\* strings.Contains
Contains(s, p) == Index(s, p) # -1

\* strings.HasPrefix, strings.HasSuffix, strings.TrimPrefix, strings.TrimSuffix
HasPrefix(s, p) == Len(s) >= Len(p) /\ SubSeq(s, 1, Len(p)) = p
HasSuffix(s, p) == Len(s) >= Len(p) /\ SubSeq(s, Len(s) - Len(p) + 1, Len(s)) = p
TrimPrefix(s, p) == IF HasPrefix(s, p) THEN SubSeq(s, Len(p) + 1, Len(s)) ELSE s
TrimSuffix(s, p) == IF HasSuffix(s, p) THEN SubSeq(s, 1, Len(s) - Len(p)) ELSE s

\* strings.TrimSpace
RECURSIVE TrimLeft(_)
TrimLeft(s) ==
    IF s # <<>> /\ IsSpace(Head(s)) THEN TrimLeft(Tail(s)) ELSE s
RECURSIVE TrimRight(_)
TrimRight(s) ==
    IF s # <<>> /\ IsSpace(s[Len(s)]) THEN TrimRight(SubSeq(s, 1, Len(s) - 1))
    ELSE s
TrimSpace(s) == TrimRight(TrimLeft(s))

\* len(strings.Fields(s)): the number of maximal runs of non-space characters
FieldsLen(s) ==
    Cardinality({i \in 1..Len(s) :
                   /\ ~IsSpace(s[i])
                   /\ (i = 1 \/ IsSpace(s[i - 1]))})

\* strings.Split(s, "\n")
RECURSIVE Split(_)
Split(s) ==
    LET nl == Index(s, <<"\n">>)
    IN  IF nl = -1 THEN <<s>>
        ELSE <<SubSeq(s, 1, nl)>> \o Split(SubSeq(s, nl + 2, Len(s)))

\* strings.Join(lines, sep)
RECURSIVE Join(_, _)
Join(lines, sep) ==
    IF lines = <<>> THEN <<>>
    ELSE IF Len(lines) = 1 THEN lines[1]
    ELSE lines[1] \o sep \o Join(Tail(lines), sep)

\* the comment markers of ghost text
CommentOpen == <<"<", "!", "-", "-">>
CommentClose == <<"-", "-", ">">>

(***************************************************************************)
(* Content Filter: the editor's processGhostText and countWords, the       *)
(* older editor's loadTodayFile, and the word counts of the two stats      *)
(* passes                                                                  *)
(***************************************************************************)
\* the test both editors apply to a line
IsGhostLine(line) ==
    /\ HasPrefix(TrimSpace(line), CommentOpen)
    /\ HasSuffix(TrimSpace(line), CommentClose)

\* the text between the markers of a ghost line
GhostTextOf(line) ==
    TrimSpace(TrimSuffix(TrimPrefix(TrimSpace(line), CommentOpen), CommentClose))

\* the loop of processGhostText over the first i lines
RECURSIVE GhostScan(_, _)
GhostScan(lines, i) ==
    IF i = 0 THEN [actualLines |-> <<>>, ghostText |-> <<>>]
    ELSE LET a    == GhostScan(lines, i - 1)
             line == lines[i]
             text == GhostTextOf(line)
         IN  IF IsGhostLine(line)
             THEN IF text # <<>>
                  THEN [a EXCEPT !.ghostText = Append(@, text)]
                  ELSE a
             ELSE [a EXCEPT !.actualLines = Append(@, line)]

\* editor processGhostText
processGhostText(content) ==
    LET lines == Split(content)
        a     == GhostScan(lines, Len(lines))
    IN  [actualContent |-> Join(a.actualLines, <<"\n">>),
         ghostText |-> a.ghostText]

\* the loop of the editor's countWords over the first i lines
RECURSIVE CountScan(_, _)
CountScan(lines, i) ==
    IF i = 0 THEN 0
    ELSE IF IsGhostLine(lines[i]) THEN CountScan(lines, i - 1)
    ELSE CountScan(lines, i - 1) + FieldsLen(lines[i])

\* editor countWords
editor_countWords(content) == CountScan(Split(content), Len(Split(content)))

\* the loop of loadTodayFile over the first i lines of an existing file
RECURSIVE PromptScan(_, _)
PromptScan(lines, i) ==
    IF i = 0 THEN [contentLines |-> <<>>, prompts |-> <<>>]
    ELSE LET a    == PromptScan(lines, i - 1)
             line == lines[i]
             text == GhostTextOf(line)
         IN  IF IsGhostLine(line)
             THEN IF /\ text # <<>>
                     /\ ~Contains(text, <<"2", "0", "2", "5">>)
                     /\ ~Contains(text, <<"2", "0", "2", "4">>)
                  THEN [a EXCEPT !.prompts = Append(@, text)]
                  ELSE a
             ELSE [a EXCEPT !.contentLines = Append(@, line)]

\* "for len(contentLines) > 0 && TrimSpace(contentLines[0]) == """
RECURSIVE DropLeadingEmpty(_)
DropLeadingEmpty(lines) ==
    IF lines # <<>> /\ TrimSpace(lines[1]) = <<>>
    THEN DropLeadingEmpty(Tail(lines)) ELSE lines

\* older editor loadTodayFile, the file exists
loadTodayFile(data) ==
    LET lines == Split(data)
        a     == PromptScan(lines, Len(lines))
    IN  [content |-> Join(DropLeadingEmpty(a.contentLines), <<"\n">>),
         prompt |-> Join(a.prompts, <<" ">>)]

\* older editor countWords
older_countWords(text) == IF text = <<>> THEN 0 ELSE FieldsLen(text)

\* stats.go countWords
countWords(content) == FieldsLen(content)

\* statsui removeHTMLComments
RECURSIVE removeHTMLComments(_)
removeHTMLComments(text) ==
    LET start == Index(text, CommentOpen)
        end   == Index(SubSeq(text, start + 1, Len(text)), CommentClose)
    IN  IF start = -1 THEN text
        ELSE IF end = -1 THEN text
        ELSE removeHTMLComments(SubSeq(text, 1, start)
                                \o SubSeq(text, start + end + 4, Len(text)))

\* the lines the notes of the filter corpora are made of
GhostDate ==
    <<"<", "!", "-", "-", " ", "2", "0", "2", "4", "-", "0", "1", "-", "0",
      "1", " ", "-", "-", ">">>
GhostPrompt ==
    <<"<", "!", "-", "-", " ", "P", "r", "o", "m", "p", "t", " ", "t", "e",
      "x", "t", " ", "-", "-", ">">>
EmptyLine == <<>>
ProseLine ==
    <<"H", "e", "l", "l", "o", " ", "w", "o", "r", "l", "d">>
PartialLine ==
    <<"H", "i", " ", "<", "!", "-", "-", " ", "x", " ", "-", "-", ">">>
OpenLine ==
    <<"<", "!", "-", "-", " ", "o", "p", "e", "n">>
CloseLine ==
    <<"c", "l", "o", "s", "e", " ", "-", "-", ">">>
EmptyGhost ==
    <<" ", "<", "!", "-", "-", " ", "-", "-", ">", " ">>

LineKinds == {GhostDate, GhostPrompt, EmptyLine, ProseLine, PartialLine,
              OpenLine, CloseLine, EmptyGhost}

\* a note with w words and no ghost text
RECURSIVE Prose(_)
Prose(w) == IF w = 0 THEN <<>>
            ELSE IF w = 1 THEN <<"a">>
            ELSE <<"a", " ">> \o Prose(w - 1)

(***************************************************************************)
(* Orders: directory listings, ranges over maps, sort.Slice                *)
(***************************************************************************)
\* the orders the elements of S can come in
Orders(S) ==
    {o \in [1..Cardinality(S) -> S] :
       \A i, j \in 1..Cardinality(S) : i # j => o[i] # o[j]}

\* "for _, v := range m": a range over a map visits its values in an order
\* that is not specified and differs from run to run
Range(m) == Orders({m[k] : k \in DOMAIN m})

\* sort.Slice(seq, less) for a less that compares the keys, which differ
\* from element to element: the element with i - 1 smaller keys comes i-th
SortSlice_Unsorted(seq, keys) == seq
SortSlice(seq, keys) ==
    [i \in 1..Len(seq) |->
       seq[CHOOSE j \in 1..Len(seq) :
             Cardinality({k \in 1..Len(seq) : keys[k] < keys[j]}) = i - 1]]

(***************************************************************************)
(* stats.go: collectAllStats and its streak and week computations          *)
(***************************************************************************)
\* sort.Slice(..., date.Before): insertion into a date-ascending sequence
RECURSIVE InsertByDate(_, _)
InsertByDate(seq, x) ==
    IF seq = <<>> THEN <<x>>
    ELSE IF x.date < Head(seq).date THEN <<x>> \o seq
    ELSE <<Head(seq)>> \o InsertByDate(Tail(seq), x)

SortByDate_Listing(seq) == seq
RECURSIVE SortByDate(_)
SortByDate(seq) ==
    IF seq = <<>> THEN <<>>
    ELSE InsertByDate(SortByDate(Tail(seq)), Head(seq))

\* the dateMap of the streak functions: the formatted dates that have a note
DateKeys(dailyStats) ==
    {FormatDate(dailyStats[i].date) : i \in 1..Len(dailyStats)}

\* the backward loop of the streak functions, from day d
RECURSIVE CountBack(_, _)
CountBack(dateMap, d) ==
    IF FormatDate(d) \in dateMap THEN 1 + CountBack(dateMap, d - 1) ELSE 0

\* stats.go calculateCurrentStreak: anchored on today only
calculateCurrentStreak_Total(dailyStats, t) == Len(dailyStats)
calculateCurrentStreak(dailyStats, t) ==
    IF Len(dailyStats) = 0 THEN 0
    ELSE IF FormatDate(t) \notin DateKeys(dailyStats) THEN 0
    ELSE CountBack(DateKeys(dailyStats), t)

\* the scan of calculateLongestStreak from index i
RECURSIVE LongestScan_NoReset(_, _, _, _)
LongestScan_NoReset(ds, i, cur, longest) ==
    IF i > Len(ds) THEN longest
    ELSE IF (ds[i].date - ds[i-1].date) * 24 = 24
         THEN LongestScan_NoReset(ds, i + 1, cur + 1,
                                  IF cur + 1 > longest THEN cur + 1 ELSE longest)
         ELSE LongestScan_NoReset(ds, i + 1, cur, longest)
RECURSIVE LongestScan(_, _, _, _)
LongestScan(ds, i, cur, longest) ==
    IF i > Len(ds) THEN longest
    ELSE IF (ds[i].date - ds[i-1].date) * 24 = 24
         THEN LongestScan(ds, i + 1, cur + 1,
                          IF cur + 1 > longest THEN cur + 1 ELSE longest)
         ELSE LongestScan(ds, i + 1, 1, longest)

\* stats.go calculateLongestStreak
calculateLongestStreak_Pairs(dailyStats) ==
    IF Len(dailyStats) = 0 THEN 0 ELSE LongestScan(dailyStats, 2, 0, 0)
calculateLongestStreak(dailyStats) ==
    IF Len(dailyStats) = 0 THEN 0 ELSE LongestScan(dailyStats, 2, 1, 1)

\* the weekMap of calculateWeeklyStats after the first i daily stats
RECURSIVE WeekMapOf(_, _)
WeekMapOf(ds, i) ==
    IF i = 0 THEN <<>>
    ELSE LET m         == WeekMapOf(ds, i - 1)
             daily     == ds[i]
             weekStart == WeekStart(daily.date)
             weekKey   == FormatDate(weekStart)
         IN  IF weekKey \in DOMAIN m
             THEN [m EXCEPT ![weekKey] =
                     [@ EXCEPT !.totalWords = @ + daily.words,
                               !.totalTime  = @ + daily.typingTime,
                               !.daysActive = @ + 1]]
             ELSE m @@ (weekKey :> [weekStart  |-> weekStart,
                                    totalWords |-> daily.words,
                                    totalTime  |-> daily.typingTime,
                                    daysActive |-> 1])

\* sort.Slice(weeklyStats, weekStart.Before) of the values of a week map
RECURSIVE SortByWeekStart(_)
SortByWeekStart(S) ==
    IF S = {} THEN <<>>
    ELSE LET w == CHOOSE x \in S : \A y \in S : x.weekStart <= y.weekStart
         IN  <<w>> \o SortByWeekStart(S \ {w})

\* stats.go calculateWeeklyStats
calculateWeeklyStats(dailyStats) ==
    LET weekMap == WeekMapOf(dailyStats, Len(dailyStats))
    IN  SortByWeekStart({weekMap[k] : k \in DOMAIN weekMap})

\* "if words > allStats.mostProductiveWords"
MoreProductive_OrEqual(words, best) == words >= best
MoreProductive(words, best) == words > best

\* "continue": a file whose name time.Parse rejects or that os.ReadFile
\* cannot read
Skipped_Empty(f) == ~ParseOk(f.name) \/ ~f.readable \/ f.content = <<>>
Skipped(f) == ~ParseOk(f.name) \/ ~f.readable

\* the typing time of a day: zero unless the sidecar is read and decoded
SidecarSeconds_Raw(sc) == sc.typing_seconds
SidecarSeconds(sc) ==
    IF sc \in {Missing, NoAccess, Malformed} THEN 0 ELSE sc.typing_seconds

\* the loop of collectAllStats over the first i files of the listing
RECURSIVE CollectLoop(_, _)
CollectLoop(fs, i) ==
    IF i = 0
    THEN [dailyStats |-> <<>>, totalWords |-> 0, totalTypingTime |-> 0,
          mostProductiveWords |-> 0, mostProductiveDay |-> <<>>,
          monthlyTotals |-> <<>>]
    ELSE LET \* one turn of the loop: a is allStats before it, f the file
             Turn(a, f, date, words, secs) ==
               LET monthKey == FormatMonth(date)
                   month    == IF monthKey \in DOMAIN a.monthlyTotals
                               THEN a.monthlyTotals[monthKey]
                               ELSE [totalWords |-> 0, totalTime |-> 0,
                                     daysActive |-> 0]
                   month2   == [totalWords |-> month.totalWords + words,
                                totalTime  |-> month.totalTime + secs,
                                daysActive |-> month.daysActive + 1]
                   better   == MoreProductive(words, a.mostProductiveWords)
               IN  IF Skipped(f) THEN a ELSE
                   [dailyStats |-> Append(a.dailyStats,
                                          [date |-> date, words |-> words,
                                           typingTime |-> secs]),
                    totalWords |-> a.totalWords + words,
                    totalTypingTime |-> a.totalTypingTime + secs,
                    mostProductiveWords |->
                        IF better THEN words ELSE a.mostProductiveWords,
                    mostProductiveDay |->
                        IF better THEN FormatJan2(date)
                        ELSE a.mostProductiveDay,
                    monthlyTotals |->
                        IF monthKey \in DOMAIN a.monthlyTotals
                        THEN [a.monthlyTotals EXCEPT ![monthKey] = month2]
                        ELSE a.monthlyTotals @@ (monthKey :> month2)]
         IN  Turn(CollectLoop(fs, i - 1), fs[i], ParseDate(fs[i].name),
                  countWords(fs[i].content), SidecarSeconds(fs[i].sidecar))

\* stats.go collectAllStats
collectAllStats(fs, t) ==
    LET \* after the loop (a) and after sort.Slice of the days (sorted)
        Rest(a, sorted) ==
          [ran |-> TRUE,
           error |-> FALSE,
           dailyStats |-> sorted,
           totalWords |-> a.totalWords,
           totalTypingTime |-> a.totalTypingTime,
           totalDays |-> Len(sorted),
           mostProductiveWords |-> a.mostProductiveWords,
           mostProductiveDay |-> a.mostProductiveDay,
           monthlyTotals |-> a.monthlyTotals,
           currentStreak |-> calculateCurrentStreak(sorted, t),
           longestStreak |-> calculateLongestStreak(sorted),
           weeklyStats |-> calculateWeeklyStats(sorted)]
        Sorted(a) == Rest(a, SortByDate(a.dailyStats))
    IN  Sorted(CollectLoop(fs, Len(fs)))


(***************************************************************************)
(* internal/statsui/stats.go: collectStats and its computations            *)
(***************************************************************************)
\* statsui calculateCurrentStreak: anchored on today, else on yesterday
statsui_calculateCurrentStreak(dateMap, t) ==
    IF FormatDate(t) \notin dateMap /\ FormatDate(t - 1) \notin dateMap THEN 0
    ELSE IF FormatDate(t) \notin dateMap THEN CountBack(dateMap, t - 1)
    ELSE CountBack(dateMap, t)

\* the scan of statsui calculateLongestStreak from index i
RECURSIVE statsui_LongestScan(_, _, _, _)
statsui_LongestScan(notes, i, current, longest) ==
    IF i > Len(notes) THEN longest
    ELSE IF (notes[i].date - notes[i-1].date) * 24 = 24
         THEN statsui_LongestScan(notes, i + 1, current + 1,
                  IF current + 1 > longest THEN current + 1 ELSE longest)
         ELSE statsui_LongestScan(notes, i + 1, 1, longest)

\* statsui calculateLongestStreak
statsui_calculateLongestStreak(notes) ==
    IF Len(notes) = 0 THEN 0 ELSE statsui_LongestScan(notes, 2, 1, 1)

\* the weekMap of calculateWeeklyData after the first i notes
RECURSIVE statsui_WeekMapOf(_, _)
statsui_WeekMapOf(notes, i) ==
    IF i = 0 THEN <<>>
    ELSE LET m         == statsui_WeekMapOf(notes, i - 1)
             note      == notes[i]
             weekStart == WeekStart(note.date)
             key       == FormatDate(weekStart)
         IN  IF key \in DOMAIN m
             THEN [m EXCEPT ![key] = [@ EXCEPT !.words = @ + note.words,
                                               !.days  = @ + 1]]
             ELSE m @@ (key :> [startDate |-> weekStart,
                                words |-> note.words, days |-> 1])

\* sort.Slice(weeks, startDate.Before)
RECURSIVE SortByStartDate(_)
SortByStartDate(S) ==
    IF S = {} THEN <<>>
    ELSE LET w == CHOOSE x \in S : \A y \in S : x.startDate <= y.startDate
         IN  <<w>> \o SortByStartDate(S \ {w})

\* "if len(x) > n { x = x[len(x)-n:] }"
KeepLast(seq, n) ==
    IF Len(seq) > n THEN SubSeq(seq, Len(seq) - n + 1, Len(seq)) ELSE seq

\* statsui calculateWeeklyData
calculateWeeklyData(notes) ==
    LET weekMap == statsui_WeekMapOf(notes, Len(notes))
    IN  KeepLast(SortByStartDate({weekMap[k] : k \in DOMAIN weekMap}),
                 KeepWeeks)

\* the monthMap of calculateMonthlyData after the first i notes
RECURSIVE MonthMapOf(_, _)
MonthMapOf(notes, i) ==
    IF i = 0 THEN <<>>
    ELSE LET m    == MonthMapOf(notes, i - 1)
             note == notes[i]
             key  == FormatMonth(note.date)
         IN  IF key \in DOMAIN m
             THEN [m EXCEPT ![key] = [@ EXCEPT !.words = @ + note.words,
                                               !.days  = @ + 1]]
             ELSE m @@ (key :> [month |-> FormatDate(note.date)[2],
                                year  |-> FormatDate(note.date)[1],
                                words |-> note.words, days |-> 1])

\* sort.Slice(months, by year, then by month)
RECURSIVE SortByMonth(_)
SortByMonth(S) ==
    IF S = {} THEN <<>>
    ELSE LET w == CHOOSE x \in S : \A y \in S :
                    IF x.year # y.year THEN x.year < y.year
                    ELSE x.month <= y.month
         IN  <<w>> \o SortByMonth(S \ {w})

\* statsui calculateMonthlyData
calculateMonthlyData(notes) ==
    LET monthMap == MonthMapOf(notes, Len(notes))
    IN  KeepLast(SortByMonth({monthMap[k] : k \in DOMAIN monthMap}),
                 KeepMonths)

\* the sum of the words of notes[1..i]
RECURSIVE SumNoteWords(_, _)
SumNoteWords(notes, i) ==
    IF i = 0 THEN 0 ELSE SumNoteWords(notes, i - 1) + notes[i].words

\* statsui collectStats
\* float64(a) / float64(b) as the fraction it stands for; no panic on zero
FloatDiv(a, b) == <<a, b>>

\* the zero value of a float64 field
ZeroFloat == <<0, 1>>

collectStats(listing, t) ==
    LET wordsOf(f) == FieldsLen(removeHTMLComments(f.content))
        fs       == SelectSeq(listing, LAMBDA f : ~Skipped(f))
        unsorted == [i \in 1..Len(fs) |->
                       [date |-> ParseDate(fs[i].name), words |-> wordsOf(fs[i])]]
        dateMap  == {fs[i].name : i \in 1..Len(fs)}
        notes    == SortByDate(unsorted)
        some     == Len(notes) > 0
    IN  [ran |-> TRUE,
         error |-> FALSE,
         notes |-> notes,
         totalDays |-> Len(notes),
         totalWords |-> IF some THEN SumNoteWords(notes, Len(notes)) ELSE 0,
         avgWords |->
             IF some THEN FloatDiv(SumNoteWords(notes, Len(notes)), Len(notes))
             ELSE ZeroFloat,
         todayWords |->
             IF some /\ \E i \in 1..Len(fs) : fs[i].name = FormatDate(t)
             THEN wordsOf(fs[CHOOSE i \in 1..Len(fs) : fs[i].name = FormatDate(t)])
             ELSE 0,
         currentStreak |->
             IF some THEN statsui_calculateCurrentStreak(dateMap, t) ELSE 0,
         longestStreak |->
             IF some THEN statsui_calculateLongestStreak(notes) ELSE 0,
         weeklyData |-> IF some THEN calculateWeeklyData(notes) ELSE <<>>,
         monthlyData |-> IF some THEN calculateMonthlyData(notes) ELSE <<>>]

(***************************************************************************)
(* A pass with the order of its map ranges left open                       *)
(***************************************************************************)
\* calculateWeeklyStats: the week slices a run can return, one for each
\* order of "for _, week := range weekMap"
calculateWeeklyStats_Range(dailyStats) ==
    {SortSlice(o, [i \in 1..Len(o) |-> o[i].weekStart]) :
       o \in Range(WeekMapOf(dailyStats, Len(dailyStats)))}

\* calculateWeeklyData: likewise, with the last 8 weeks kept
calculateWeeklyData_Range(notes) ==
    {KeepLast(SortSlice(o, [i \in 1..Len(o) |-> o[i].startDate]), KeepWeeks) :
       o \in Range(statsui_WeekMapOf(notes, Len(notes)))}

\* calculateMonthlyData: likewise, sorted by year and month, the last 6
\* months kept
calculateMonthlyData_Range(notes) ==
    {KeepLast(SortSlice(o, [i \in 1..Len(o) |-> 12 * o[i].year + o[i].month]),
              KeepMonths) :
       o \in Range(MonthMapOf(notes, Len(notes)))}

\* collectAllStats: the results a run can return, pass being the one with
\* the weeks in ascending order of the map
collectAllStats_Range(pass) ==
    {[pass EXCEPT !.weeklyStats = w] :
       w \in calculateWeeklyStats_Range(pass.dailyStats)}

\* collectStats: the results a run can return
collectStats_Range(pass) ==
    IF Len(pass.notes) = 0 THEN {pass}
    ELSE {[pass EXCEPT !.weeklyData = w, !.monthlyData = m] :
            w \in calculateWeeklyData_Range(pass.notes),
            m \in calculateMonthlyData_Range(pass.notes)}

(***************************************************************************)
(* Aggregation passes over a corpus                                        *)
(***************************************************************************)
\* a note file of day d with w words; its sidecar holds 10 s per word and is
\* absent for a note without words
NoteFile(d, w) ==
    [name |-> FormatDate(d), content |-> Prose(w), readable |-> TRUE,
     sidecar |-> IF w = 0 THEN Missing
                 ELSE [typing_seconds |-> 10 * w, word_count |-> w]]

\* the listing filepath.Glob returns for the notes that the function c
\* (day |-> words, -1 for no note) describes: ascending by file name
RECURSIVE Listing(_, _)
Listing(c, days) ==
    IF days = {} THEN <<>>
    ELSE LET d == CHOOSE x \in days : \A y \in days : x <= y
         IN  (IF c[d] = -1 THEN <<>> ELSE <<NoteFile(d, c[d])>>)
             \o Listing(c, days \ {d})

\* the editor is not part of the aggregation specifications
EditorIdle ==
    /\ now = 0
    /\ running = FALSE
    /\ sessions = 0
    /\ lastActivity = 0
    /\ typingTime = 0
    /\ modified = FALSE
    /\ wordCount = 0
    /\ tickDue = 0
    /\ statsFile = Missing
    /\ noteFile = -1
    /\ lastEvent = "none"
    /\ hist = HistInit(0, 0)
    /\ ghostModel = None
    /\ promptModel = None
    /\ view = None


\* no editor process shares the files
ProcsIdle ==
    /\ procs = [p \in Procs |-> NoProc]
    /\ durable = 0

\* the days of the streak corpora, and the dates the pass is run on
Window == Day20240101..(Day20240101 + WindowLen - 1)
Todays == (Day20240101 + 1)..(Day20240101 + WindowLen + 1)

\* every corpus over the window, on every date
InitAgg ==
    /\ EditorIdle
    /\ ProcsIdle
    /\ notesDir = "ok"
    /\ firstPass = NoPass
    /\ \E c \in [Window -> {-1} \cup WordChoices] : files = Listing(c, Window)
    /\ today \in Todays
    /\ allStats = None
    /\ uiStats = None

\* the days of the week corpora: four days around the turn of the year and
\* one Wednesday in each of the weeks before
RecentDays == {Day20231231, Day20240106, Day20240107, Day20240110}
OldDays == {Day20231231 - 4 - 7 * (k - 1) : k \in 1..MaxOldWeeks}

InitWeeks ==
    /\ EditorIdle
    /\ ProcsIdle
    /\ notesDir = "ok"
    /\ firstPass = NoPass
    /\ \E c \in [RecentDays -> {-1, 2, 3}] :
       \E old \in SUBSET OldDays :
         files = Listing([d \in OldDays |-> IF d \in old THEN 1 ELSE -1],
                         OldDays)
                 \o Listing(c, RecentDays)
    /\ today = Day20240110
    /\ allStats = None
    /\ uiStats = None

\* os.UserHomeDir returns an error: $HOME is not set
UserHomeDirFails(dir) == dir = "nohome"

\* filepath.Glob(riverDir/*.md): the listing of the notes directory; Glob
\* ignores the errors of the file system and then matches nothing (and it
\* is not reached without a home directory)
Glob(dir, fs) == IF dir = "ok" THEN fs ELSE <<>>

\* river stats, stats.go: loadStatsCmd runs collectAllStats; on
\* statsErrorMsg the statsModel keeps its zero statistics, those of a pass
\* over no file, and the error
CollectAllStats ==
    /\ allStats = None
    /\ allStats' = [collectAllStats(Glob(notesDir, files), today)
                      EXCEPT !.error = UserHomeDirFails(notesDir)]
    /\ UNCHANGED <<editorVars, files, today, uiStats, ghostModel, promptModel,
                   view, notesDir, firstPass, concVars>>

\* river stats, internal/statsui: loadStats runs collectStats; on a
\* statsMsg with err the Model keeps no statistics and the error
CollectStats ==
    /\ uiStats = None
    /\ uiStats' = [collectStats(Glob(notesDir, files), today)
                     EXCEPT !.error = UserHomeDirFails(notesDir)]
    /\ UNCHANGED <<editorVars, files, today, allStats, ghostModel, promptModel,
                   view, notesDir, firstPass, concVars>>

NextAgg ==
    \/ CollectAllStats
    \/ CollectStats

SpecAgg == InitAgg /\ [][NextAgg]_vars

SpecWeeks == InitWeeks /\ [][NextAgg]_vars

\* the weekdays a run of the bucket corpora starts on, counted from Sunday
\* 2024-01-28
RunOffsets == 0..6

\* a corpus of notes on n consecutive days, three words each
InitBuckets ==
    /\ EditorIdle
    /\ ProcsIdle
    /\ notesDir = "ok"
    /\ firstPass = NoPass
    /\ \E o \in RunOffsets : \E n \in 0..MaxRunDays :
         LET days == (Day20240128 + o)..(Day20240128 + o + n - 1)
         IN  files = Listing([d \in days |-> 3], days)
    /\ today = Day20240128 + MaxRunDays
    /\ allStats = None
    /\ uiStats = None

SpecBuckets == InitBuckets /\ [][NextAgg]_vars

\* the notes of the filter corpora: up to MaxLines lines
Notes ==
    UNION {[1..n -> LineKinds] : n \in 1..MaxLines}

\* a corpus of one note, today's, made of any lines
InitFilter ==
    /\ EditorIdle
    /\ ProcsIdle
    /\ notesDir = "ok"
    /\ firstPass = NoPass
    /\ today = Day20240101
    /\ \E note \in Notes :
         files = <<[name |-> FormatDate(today),
                    content |-> Join(note, <<"\n">>),
                    readable |-> TRUE,
                    sidecar |-> Missing]>>
    /\ allStats = None
    /\ uiStats = None

\* today's note as loadOrCreateTodayFile reads it
TodayContent ==
    files[CHOOSE i \in 1..Len(files) : files[i].name = FormatDate(today)].content

\* editor NewInitialModel: the note is split into content and ghost text
LoadGhostText ==
    /\ ghostModel = None
    /\ \E i \in 1..Len(files) : files[i].name = FormatDate(today)
    /\ LET r == processGhostText(TodayContent)
       IN  ghostModel' = [ran |-> TRUE,
                          actualContent |-> r.actualContent,
                          ghostText |-> r.ghostText,
                          wordCount |-> editor_countWords(r.actualContent)]
    /\ UNCHANGED <<editorVars, files, today, allStats, uiStats, promptModel,
                   view, notesDir, firstPass, concVars>>

\* older editor NewInitialModel: loadTodayFile on the existing note
LoadTodayFile ==
    /\ promptModel = None
    /\ \E i \in 1..Len(files) : files[i].name = FormatDate(today)
    /\ LET r == loadTodayFile(TodayContent)
       IN  promptModel' = [ran |-> TRUE,
                           content |-> r.content,
                           prompt |-> r.prompt,
                           wordCount |-> older_countWords(r.content)]
    /\ UNCHANGED <<editorVars, files, today, allStats, uiStats, ghostModel,
                   view, notesDir, firstPass, concVars>>

NextFilter ==
    \/ CollectAllStats
    \/ CollectStats
    \/ LoadGhostText
    \/ LoadTodayFile

SpecFilter == InitFilter /\ [][NextFilter]_vars

(***************************************************************************)
(* Editor processes and an aggregation pass on the same day's files        *)
(***************************************************************************)
\* the variables of the single editor of Spec that the processes leave alone
soloVars == <<running, lastActivity, typingTime, modified, wordCount, tickDue,
              statsFile, noteFile, hist>>

\* what a reader decodes from the empty file that os.WriteFile leaves
\* between opening the sidecar with O_TRUNC and writing the data
Truncated == [typing_seconds |-> 0, word_count |-> 0]

\* the position of today's note in the listing
TodayIndex == CHOOSE i \in 1..Len(files) : files[i].name = FormatDate(today)

\* today's note exists and is empty, its sidecar does not exist
InitConc ==
    /\ EditorIdle
    /\ ProcsIdle
    /\ notesDir = "ok"
    /\ firstPass = NoPass
    /\ today = Day20240101
    /\ files = <<NoteFile(today, 0)>>
    /\ allStats = None
    /\ uiStats = None

\* NewInitialModel in process p
Proc_NewInitialModel(p) ==
    /\ procs[p] = NoProc
    /\ procs' = [procs EXCEPT ![p] =
         [running      |-> TRUE,
          lastActivity |-> now,
          typingTime   |-> loadStats(files[TodayIndex].sidecar),
          modified     |-> FALSE,
          wordCount    |->
              editor_countWords(processGhostText(TodayContent).actualContent),
          tickDue      |-> now + TickPeriod,
          pc           |-> "update",
          pending      |-> Missing,
          quitting     |-> FALSE]]
    /\ lastEvent' = "launch"
    /\ UNCHANGED <<now, sessions, soloVars, files, today, allStats, uiStats,
                   ghostModel, promptModel, view, notesDir,
                   firstPass, durable>>

\* Update, case tickMsg, in process p: the timer of tickCmd fires when the
\* clock reaches the time the tick is due
Proc_Tick(p) ==
    /\ procs[p].running
    /\ procs[p].pc = "update"
    /\ now' = IF now >= procs[p].tickDue THEN now ELSE procs[p].tickDue
    /\ now' <= MaxConcNow
    /\ procs' = [procs EXCEPT
         ![p].typingTime = IF TickAccrues(now', procs[p].lastActivity)
                           THEN @ + TickPeriod ELSE @,
         ![p].tickDue    = now' + TickPeriod]
    /\ lastEvent' = "tick"
    /\ UNCHANGED <<sessions, soloVars, files, today, allStats, uiStats,
                   ghostModel, promptModel, view, notesDir,
                   firstPass, durable>>

\* Update, case tea.WindowSizeMsg, in process p
Proc_WindowSize(p) ==
    /\ procs[p].running
    /\ procs[p].pc = "update"
    /\ lastEvent' = "resize"
    /\ UNCHANGED <<now, sessions, soloVars, aggVars>>

\* Update, case tea.KeyMsg, default, in process p: autosaving variant
Proc_KeyEdit_Autosave(p) ==
    /\ procs[p].running
    /\ procs[p].pc = "update"
    /\ \E w \in BufferWords :
         /\ procs' = [procs EXCEPT ![p].lastActivity = now,
                                   ![p].wordCount    = w,
                                   ![p].modified     = TRUE]
         /\ files' = [files EXCEPT ![TodayIndex].sidecar =
                        saveStats(procs[p].typingTime, w)]
    /\ lastEvent' = "key"
    /\ UNCHANGED <<now, sessions, soloVars, today, allStats, uiStats,
                   ghostModel, promptModel, view, notesDir,
                   firstPass, durable>>
\* Update, case tea.KeyMsg, default, in process p
Proc_KeyEdit(p) ==
    /\ procs[p].running
    /\ procs[p].pc = "update"
    /\ \E w \in BufferWords :
         procs' = [procs EXCEPT ![p].lastActivity = now,
                                ![p].wordCount    = w,
                                ![p].modified     = TRUE]
    /\ lastEvent' = "key"
    /\ UNCHANGED <<now, sessions, soloVars, files, today, allStats, uiStats,
                   ghostModel, promptModel, view, notesDir,
                   firstPass, durable>>

\* Update, case tea.KeyCtrlS, in process p, up to the point where
\* os.WriteFile has opened and truncated the sidecar
Proc_KeySave(p) ==
    /\ procs[p].running
    /\ procs[p].pc = "update"
    /\ \E ok \in BOOLEAN :
         /\ files' = [files EXCEPT
              ![TodayIndex].content = IF ok THEN Prose(procs[p].wordCount) ELSE @,
              ![TodayIndex].sidecar = Truncated]
         /\ procs' = [procs EXCEPT
              ![p].lastActivity = now,
              ![p].modified     = IF ok THEN FALSE ELSE @,
              ![p].pc           = "write",
              ![p].pending      = saveStats(procs[p].typingTime,
                                            procs[p].wordCount)]
    /\ lastEvent' = "save"
    /\ UNCHANGED <<now, sessions, soloVars, today, allStats, uiStats,
                   ghostModel, promptModel, view, notesDir,
                   firstPass, durable>>

\* Update, case tea.KeyCtrlC, tea.KeyEsc, in process p, up to the same point
Proc_KeyQuit(p) ==
    /\ procs[p].running
    /\ procs[p].pc = "update"
    /\ IF QuitFlushes(procs[p].modified)
       THEN \E ok \in BOOLEAN :
              /\ files' = [files EXCEPT
                   ![TodayIndex].content =
                       IF ok THEN Prose(procs[p].wordCount) ELSE @,
                   ![TodayIndex].sidecar = Truncated]
              /\ procs' = [procs EXCEPT
                   ![p].lastActivity = now,
                   ![p].pc           = "write",
                   ![p].quitting     = TRUE,
                   ![p].pending      = saveStats(procs[p].typingTime,
                                                 procs[p].wordCount)]
       ELSE /\ procs' = [procs EXCEPT ![p] = Exited]
            /\ UNCHANGED files
    /\ lastEvent' = "quit"
    /\ UNCHANGED <<now, sessions, soloVars, today, allStats, uiStats,
                   ghostModel, promptModel, view, notesDir,
                   firstPass, durable>>

\* os.WriteFile in saveStats of process p writes the data and returns
Proc_WriteFile(p) ==
    /\ procs[p].running
    /\ procs[p].pc = "write"
    /\ files' = [files EXCEPT ![TodayIndex].sidecar = procs[p].pending]
    /\ durable' = procs[p].pending.typing_seconds
    /\ procs' = [procs EXCEPT ![p] =
         IF procs[p].quitting THEN Exited
         ELSE [@ EXCEPT !.pc = "update", !.pending = Missing]]
    /\ lastEvent' = IF procs[p].quitting THEN "quit" ELSE "save"
    /\ UNCHANGED <<now, sessions, soloVars, today, allStats, uiStats,
                   ghostModel, promptModel, view, notesDir,
                   firstPass>>

NextConc ==
    \/ \E p \in Procs : Proc_NewInitialModel(p)
    \/ \E p \in Procs : Proc_Tick(p)
    \/ \E p \in Procs : Proc_WindowSize(p)
    \/ \E p \in Procs : Proc_KeyEdit(p)
    \/ \E p \in Procs : Proc_KeySave(p)
    \/ \E p \in Procs : Proc_KeyQuit(p)
    \/ \E p \in Procs : Proc_WriteFile(p)
    \/ CollectAllStats

SpecConc == InitConc /\ [][NextConc]_vars

(***************************************************************************)
(* stats.go: the dashboard's View                                          *)
(***************************************************************************)
\* Go's integer division: a zero divisor panics
Quot(a, b) == IF b = 0 THEN [panic |-> TRUE, value |-> 0]
              ELSE [panic |-> FALSE, value |-> a \div b]

\* the initial value of an average that its guard leaves alone
ZeroAvg == [panic |-> FALSE, value |-> 0]

\* formatDuration of d seconds: "%dh %dm" above an hour, "%dm" below
formatDuration(d) ==
    LET hours   == d \div 3600
        minutes == (d \div 60) % 60
    IN  IF hours > 0 THEN <<hours, minutes>> ELSE <<minutes>>

\* an average printed with %d, and one printed with formatDuration
AvgWords(label, q) == [label |-> label, panic |-> q.panic, text |-> <<q.value>>]
AvgTime(label, q) ==
    [label |-> label, panic |-> q.panic, text |-> formatDuration(q.value)]

\* renderOverview: the averages of the Overview tab
renderOverview(st) ==
    <<AvgWords("Average Words/Day",
               IF st.totalDays > 0 THEN Quot(st.totalWords, st.totalDays)
               ELSE ZeroAvg),
      AvgTime("Average Time/Day",
              IF st.totalDays > 0 THEN Quot(st.totalTypingTime, st.totalDays)
              ELSE ZeroAvg)>>

\* renderDaily prints no average
renderDaily(st) == <<>>

\* renderWeekly: the average of each of the last 8 weeks
renderWeekly(st) ==
    LET n        == Len(st.weeklyStats)
        startIdx == IF n - 8 < 0 THEN 0 ELSE n - 8
    IN  [i \in 1..(n - startIdx) |->
           LET stat == st.weeklyStats[startIdx + i]
           IN  AvgWords("avg/day",
                        IF stat.daysActive > 0
                        THEN Quot(stat.totalWords, stat.daysActive)
                        ELSE ZeroAvg)]

\* renderTrends of stats.go (and of part_006): the average session
renderTrends(st) ==
    <<AvgTime("Average session", Quot(st.totalTypingTime, st.totalDays))>>

\* renderTrends of part_005: the average session under its guard
part005_renderTrends(st) ==
    IF st.totalDays > 0
    THEN <<AvgTime("Average session", Quot(st.totalTypingTime, st.totalDays))>>
    ELSE <<>>

\* View: the content of the selected tab
View(st, selectedTab) ==
    CASE selectedTab = 0 -> renderOverview(st)
      [] selectedTab = 1 -> renderDaily(st)
      [] selectedTab = 2 -> renderWeekly(st)
      [] selectedTab = 3 -> renderTrends(st)

\* what a call of View leaves on the screen: nothing when it panicked
Rendered(variant, selectedTab, avgs) ==
    LET panicked == \E i \in 1..Len(avgs) : avgs[i].panic
    IN  [ran |-> TRUE, variant |-> variant, selectedTab |-> selectedTab,
         error |-> FALSE, panicked |-> panicked,
         averages |-> IF panicked THEN <<>> ELSE avgs]

\* View with m.error set: "Error loading stats", whatever the tab
ErrorScreen(selectedTab) ==
    [ran |-> TRUE, variant |-> "stats.go", selectedTab |-> selectedTab,
     error |-> TRUE, panicked |-> FALSE, averages |-> <<>>]

\* the notes of the dashboard corpora and the dates the dashboard is opened
ViewDays == {Day20240101, Day20240101 + 1, Day20240101 + 2}
ViewTodays == {Day20240101 + 2, Day20240101 + 3}

\* every corpus over three days, the empty one included
InitView ==
    /\ EditorIdle
    /\ ProcsIdle
    /\ notesDir = "ok"
    /\ firstPass = NoPass
    /\ \E c \in [ViewDays -> {-1} \cup WordChoices] :
         files = Listing(c, ViewDays)
    /\ today \in ViewTodays
    /\ allStats = None
    /\ uiStats = None

\* statsLoadedMsg, then View: the dashboard opens on the Daily tab
ViewLoaded ==
    /\ allStats.ran
    /\ view = None
    /\ view' = IF allStats.error THEN ErrorScreen(1)
               ELSE Rendered("stats.go", 1, View(allStats, 1))
    /\ UNCHANGED <<editorVars, files, today, allStats, uiStats, ghostModel,
                   promptModel, notesDir, firstPass, concVars>>

\* tab, right, shift+tab, left: the next or the previous tab, then View
KeyTab ==
    /\ view.ran
    /\ view.variant = "stats.go"
    /\ ~view.panicked
    /\ \E step \in {1, 3} :
         LET selectedTab == (view.selectedTab + step) % 4
         IN  view' = IF allStats.error THEN ErrorScreen(selectedTab)
                     ELSE Rendered("stats.go", selectedTab,
                                   View(allStats, selectedTab))
    /\ UNCHANGED <<editorVars, files, today, allStats, uiStats, ghostModel,
                   promptModel, notesDir, firstPass, concVars>>

\* the Trends tab of part_005 on the same statistics
ViewTrends005 ==
    /\ allStats.ran
    /\ ~allStats.error
    /\ view = None
    /\ view' = Rendered("part_005", 3, part005_renderTrends(allStats))
    /\ UNCHANGED <<editorVars, files, today, allStats, uiStats, ghostModel,
                   promptModel, notesDir, firstPass, concVars>>

NextView ==
    \/ CollectAllStats
    \/ CollectStats
    \/ ViewLoaded
    \/ KeyTab
    \/ ViewTrends005

SpecView == InitView /\ [][NextView]_vars

(***************************************************************************)
(* Corpora with files the pass cannot use, in any order of the listing     *)
(***************************************************************************)
\* the file names of the corpora: three days of January 2024 and
\* "2024-02-30", which time.Parse rejects
CorpusDays == {Day20240101, Day20240101 + 1, Day20240101 + 2}
BadName == <<2024, 2, 30>>

\* what a file of a day holds: a note of 3 words with its sidecar ("note"),
\* a zero-byte note ("empty"), a note that cannot be read ("unreadable"), a
\* note whose sidecar does not decode ("malformed"), a note of 5 words whose
\* sidecar cannot be read ("noaccess")
KindFile(name, kind) ==
    [name     |-> name,
     content  |-> IF kind = "empty" THEN <<>>
                  ELSE IF kind = "noaccess" THEN Prose(5) ELSE Prose(3),
     readable |-> kind # "unreadable",
     sidecar  |-> IF kind = "empty" THEN Missing
                  ELSE IF kind = "malformed" THEN Malformed
                  ELSE IF kind = "noaccess" THEN NoAccess
                  ELSE saveStats(30, 3)]

\* every corpus of such files, in every order, on 2024-01-03, in a notes
\* directory that can be listed, that cannot, or with no home directory to
\* look for it in
InitCorpus ==
    /\ EditorIdle
    /\ ProcsIdle
    /\ notesDir \in {"ok", "unreadable", "nohome"}
    /\ firstPass = NoPass
    /\ \E k \in [CorpusDays -> {"note", "empty", "unreadable", "malformed",
                                "noaccess", "absent"}] :
       \E bad \in SUBSET {KindFile(BadName, "note")} :
         files \in Orders({KindFile(FormatDate(d), k[d]) :
                             d \in {x \in CorpusDays : k[x] # "absent"}}
                          \cup bad)
    /\ today = Day20240101 + 2
    /\ allStats = None
    /\ uiStats = None

NextCorpus ==
    \/ CollectAllStats
    \/ CollectStats
    \/ ViewLoaded
    \/ KeyTab

SpecCorpus == InitCorpus /\ [][NextCorpus]_vars

(***************************************************************************)
(* river stats run a second time over the same corpus                      *)
(***************************************************************************)
InitRepeat ==
    /\ EditorIdle
    /\ ProcsIdle
    /\ notesDir = "ok"
    /\ firstPass = NoPass
    \* the days of the corpora: two weekends in two months
    /\ LET RepeatDays == {Day20231231 - 1, Day20231231, Day20240106,
                          Day20240107}
       IN  \E c \in [RepeatDays -> {-1} \cup WordChoices] :
             files = Listing(c, RepeatDays)
    /\ today = Day20240107
    /\ allStats = None
    /\ uiStats = None

\* river stats of stats.go once more: the Go runtime picks the order of the
\* range over weekMap anew
CollectAllStatsAgain ==
    /\ allStats.ran
    /\ firstPass.all = None
    /\ firstPass' = [firstPass EXCEPT !.all = allStats]
    /\ allStats' \in collectAllStats_Range(
                       collectAllStats(Glob(notesDir, files), today))
    /\ UNCHANGED <<editorVars, files, today, uiStats, ghostModel, promptModel,
                   view, notesDir, concVars>>

\* river stats of internal/statsui once more
CollectStatsAgain ==
    /\ uiStats.ran
    /\ firstPass.ui = None
    /\ firstPass' = [firstPass EXCEPT !.ui = uiStats]
    /\ uiStats' \in collectStats_Range(
                      collectStats(Glob(notesDir, files), today))
    /\ UNCHANGED <<editorVars, files, today, allStats, ghostModel, promptModel,
                   view, notesDir, concVars>>

NextRepeat ==
    \/ CollectAllStats
    \/ CollectStats
    \/ CollectAllStatsAgain
    \/ CollectStatsAgain

SpecRepeat == InitRepeat /\ [][NextRepeat]_vars

(***************************************************************************)
(* Activity Clock: claims C1 to C4                                         *)
(***************************************************************************)
KeyEvents == {"key", "save", "quit"}

\* what one step of an editor process does to the clock
C1_Step ==
    lastEvent' # "launch" =>
      /\ typingTime' >= typingTime
      /\ typingTime' # typingTime => lastEvent' = "tick"
      /\ lastEvent' = "tick" =>
           typingTime' = IF now - lastActivity < 60 THEN typingTime + 1
                         ELSE typingTime
      /\ lastEvent' \in KeyEvents =>
           /\ lastActivity' = now'
           /\ typingTime' = typingTime

\* C1: within one editor process the accumulated typing duration never
\* decreases and changes only on a tick; a tick adds exactly one second when
\* now minus last-activity is under 60 seconds and nothing otherwise; every
\* keystroke sets last-activity to now and leaves the duration alone.
C1_ClockRule == [][C1_Step]_vars

\* a tick that arrived idle, in a session that accrued time before
C1_Witness ==
    /\ lastEvent = "tick"
    /\ now - lastActivity >= 60
    /\ typingTime > hist.seed

\* C2 (as claimed): after the last session of the day has exited, the
\* persisted duration is the sum of the seconds accrued in all sessions.
C2_Additive ==
    (~running /\ sessions >= 1) => loadStats(statsFile) = hist.accrued

\* C3 (as claimed): every save and every exit writes the session's duration
\* and word count to the sidecar, modified buffer or not.
C3_FlushOnSaveAndExit ==
    lastEvent \in {"save", "quit"} =>
      statsFile = [typing_seconds |-> typingTime, word_count |-> wordCount]

NoteDays == {ParseDate(files[i].name) : i \in 1..Len(files)}

\* the words of the note of day d
WordsOn(d) ==
    FieldsLen(files[CHOOSE i \in 1..Len(files) :
                      ParseDate(files[i].name) = d].content)

RECURSIVE SumWordsOn(_)
SumWordsOn(days) ==
    IF days = {} THEN 0
    ELSE LET d == CHOOSE x \in days : TRUE
         IN  WordsOn(d) + SumWordsOn(days \ {d})

\* the length of the run of days of S that ends on day d
RECURSIVE RunEnding(_, _)
RunEnding(S, d) == IF d \notin S THEN 0 ELSE 1 + RunEnding(S, d - 1)

RunEndingOn(d) == RunEnding(NoteDays, d)

\* the longest run of consecutive days with a note
MaxRun ==
    LET S    == NoteDays
        runs == {RunEnding(S, d) : d \in S}
    IN  IF S = {} THEN 0 ELSE CHOOSE k \in runs : \A r \in runs : r <= k

\* C5: in every aggregation pass, for every corpus and every date of today,
\* the longest streak is at least the current streak.
C5_LongestGeCurrent ==
    /\ allStats.ran => allStats.longestStreak >= allStats.currentStreak
    /\ uiStats.ran => uiStats.longestStreak >= uiStats.currentStreak

\* a corpus whose current streak of several days is also its longest
C5_Witness ==
    /\ allStats.ran /\ uiStats.ran
    /\ allStats.currentStreak >= 2
    /\ allStats.longestStreak = allStats.currentStreak
    /\ uiStats.longestStreak = uiStats.currentStreak

\* the current streak with the grace period of one day
C6_Expected ==
    IF today \notin NoteDays /\ (today - 1) \notin NoteDays THEN 0
    ELSE IF today \in NoteDays THEN RunEndingOn(today)
    ELSE RunEndingOn(today - 1)

\* C6 (as claimed): the current streak is 0 when neither today nor yesterday
\* has a note, and otherwise the run of days with a note that ends on the
\* anchor: today when today has a note, yesterday otherwise.
C6_CurrentStreak ==
    /\ allStats.ran => allStats.currentStreak = C6_Expected
    /\ uiStats.ran => uiStats.currentStreak = C6_Expected

\* C7: the longest streak is the length of the longest run of notes on
\* consecutive days: 0 for an empty corpus, at least 1 otherwise.
C7_LongestStreak ==
    /\ allStats.ran =>
         /\ allStats.longestStreak = MaxRun
         /\ (NoteDays = {}) = (allStats.longestStreak = 0)
    /\ uiStats.ran =>
         /\ uiStats.longestStreak = MaxRun
         /\ (NoteDays = {}) = (uiStats.longestStreak = 0)

\* a corpus with two runs, where the running counter was reset
C7_Witness ==
    /\ allStats.ran /\ uiStats.ran
    /\ allStats.longestStreak = 2
    /\ allStats.totalDays = 4

\* the most recent Sunday on or before day d
SundayOnOrBefore(d) == d - ((d + 4) % 7)

\* the days with a note in the weeks that start from day a to day b
DaysOfWeeks(a, b) == {d \in NoteDays : a <= d /\ d <= b + 6}

\* the sums of the week buckets of one pass against the notes they cover
C8_RangeSums(weeks, start(_), words(_), total) ==
    /\ \A i \in 1..Len(weeks) : \A j \in i..Len(weeks) :
         LET RECURSIVE Sum(_)
             Sum(k) == IF k > j THEN 0 ELSE words(weeks[k]) + Sum(k + 1)
         IN  Sum(i) = SumWordsOn(DaysOfWeeks(start(weeks[i]), start(weeks[j])))
    /\ LET RECURSIVE All(_)
           All(k) == IF k > Len(weeks) THEN 0 ELSE words(weeks[k]) + All(k + 1)
       IN  /\ All(1) = total
           /\ All(1) = SumWordsOn(NoteDays)

\* C8 (as claimed): the total words of the week buckets a pass returns, over
\* any contiguous range of them, are the words of the notes dated in that
\* range, and over all of them the total words of the corpus.
C8_WeekSums ==
    /\ allStats.ran =>
         C8_RangeSums(allStats.weeklyStats, LAMBDA w : w.weekStart,
                      LAMBDA w : w.totalWords, allStats.totalWords)
    /\ uiStats.ran =>
         C8_RangeSums(uiStats.weeklyData, LAMBDA w : w.startDate,
                      LAMBDA w : w.words, uiStats.totalWords)

\* C9 (as claimed): a pass exposes every week bucket and every month bucket
\* of the corpus, ascending by key, and windows none away.
C9_NoWindowing ==
    /\ allStats.ran =>
         /\ {allStats.weeklyStats[i].weekStart :
               i \in 1..Len(allStats.weeklyStats)}
              = {SundayOnOrBefore(d) : d \in NoteDays}
         /\ \A i \in 1..(Len(allStats.weeklyStats) - 1) :
              allStats.weeklyStats[i].weekStart
                < allStats.weeklyStats[i + 1].weekStart
         /\ DOMAIN allStats.monthlyTotals = {FormatMonth(d) : d \in NoteDays}
    /\ uiStats.ran =>
         /\ {uiStats.weeklyData[i].startDate : i \in 1..Len(uiStats.weeklyData)}
              = {SundayOnOrBefore(d) : d \in NoteDays}
         /\ \A i \in 1..(Len(uiStats.weeklyData) - 1) :
              uiStats.weeklyData[i].startDate
                < uiStats.weeklyData[i + 1].startDate
         /\ {<<uiStats.monthlyData[i].year, uiStats.monthlyData[i].month>> :
               i \in 1..Len(uiStats.monthlyData)}
              = {FormatMonth(d) : d \in NoteDays}

\* C10: every note is counted in exactly one week bucket of
\* calculateWeeklyStats, the one of the most recent Sunday on or before its
\* date; 2024-01-07 and 2024-01-10 are in the bucket keyed 2024-01-07, and
\* 2024-01-06 is in the one keyed 2023-12-31.
C10_WeekBucket ==
    allStats.ran =>
      LET weeks == allStats.weeklyStats
          In(d, w) == w.weekStart <= d /\ d <= w.weekStart + 6
          Members(w) == {d \in NoteDays : SundayOnOrBefore(d) = w.weekStart}
          Bucket(key) == {j \in 1..Len(weeks) :
                            FormatDate(weeks[j].weekStart) = key}
      IN  /\ \A d \in NoteDays :
               /\ Cardinality({j \in 1..Len(weeks) : In(d, weeks[j])}) = 1
               /\ \E j \in 1..Len(weeks) :
                    weeks[j].weekStart = SundayOnOrBefore(d)
          /\ \A j \in 1..Len(weeks) :
               /\ Weekday(weeks[j].weekStart) = 0
               /\ weeks[j].daysActive = Cardinality(Members(weeks[j]))
               /\ weeks[j].totalWords = SumWordsOn(Members(weeks[j]))
          /\ (Day20240107 \in NoteDays \/ Day20240110 \in NoteDays) =>
               \E j \in Bucket(<<2024, 1, 7>>) :
                 weeks[j].daysActive =
                   Cardinality({Day20240107, Day20240110} \cap NoteDays)
          /\ Day20240106 \in NoteDays =>
               /\ Bucket(<<2024, 1, 7>>) \cap Bucket(<<2023, 12, 31>>) = {}
               /\ \E j \in Bucket(<<2023, 12, 31>>) :
                    weeks[j].daysActive =
                      Cardinality({Day20231231, Day20240106} \cap NoteDays)

\* the three dates of the scenario are in the corpus that was bucketed
C10_Witness ==
    /\ allStats.ran
    /\ {Day20240106, Day20240107, Day20240110} \subseteq NoteDays
    /\ \E j \in 1..Len(allStats.weeklyStats) :
         /\ FormatDate(allStats.weeklyStats[j].weekStart) = <<2024, 1, 7>>
         /\ allStats.weeklyStats[j].daysActive = 2

(***************************************************************************)
(* Buckets, Content Filter, concurrency and frame: claims C11 to C20       *)
(***************************************************************************)
\* the number of days of the calendar month of a month key <<year, month>>
DaysInMonth(key) ==
    LET next == IF key[2] = 12 THEN <<key[1] + 1, 1, 1>>
                ELSE <<key[1], key[2] + 1, 1>>
    IN  ParseDate(next) - ParseDate(<<key[1], key[2], 1>>)

\* C11: every week bucket of a pass has between 1 and 7 active days, and
\* every month bucket between 1 and the number of days of its calendar
\* month.
C11_BucketDays ==
    /\ allStats.ran =>
         /\ \A i \in 1..Len(allStats.weeklyStats) :
              /\ allStats.weeklyStats[i].daysActive >= 1
              /\ allStats.weeklyStats[i].daysActive <= 7
         /\ \A k \in DOMAIN allStats.monthlyTotals :
              /\ allStats.monthlyTotals[k].daysActive >= 1
              /\ allStats.monthlyTotals[k].daysActive <= DaysInMonth(k)
    /\ uiStats.ran =>
         /\ \A i \in 1..Len(uiStats.weeklyData) :
              /\ uiStats.weeklyData[i].days >= 1
              /\ uiStats.weeklyData[i].days <= 7
         /\ \A i \in 1..Len(uiStats.monthlyData) :
              /\ uiStats.monthlyData[i].days >= 1
              /\ uiStats.monthlyData[i].days
                   <= DaysInMonth(<<uiStats.monthlyData[i].year,
                                    uiStats.monthlyData[i].month>>)

\* a corpus with a note on each of the 29 days of February 2024: its month
\* bucket and a week bucket are full, in both passes
C11_Witness ==
    /\ allStats.ran /\ uiStats.ran
    /\ <<2024, 2>> \in DOMAIN allStats.monthlyTotals
    /\ allStats.monthlyTotals[<<2024, 2>>].daysActive = 29
    /\ \E i \in 1..Len(allStats.weeklyStats) :
         allStats.weeklyStats[i].daysActive = 7
    /\ \E i \in 1..Len(uiStats.monthlyData) :
         /\ uiStats.monthlyData[i].month = 2
         /\ uiStats.monthlyData[i].days = 29
    /\ \E i \in 1..Len(uiStats.weeklyData) : uiStats.weeklyData[i].days = 7

\* the lines of today's note
NoteLines == Split(TodayContent)

\* a line without the whitespace around it
CoreOf(line) ==
    LET ns == {i \in 1..Len(line) : ~IsSpace(line[i])}
    IN  IF ns = {} THEN <<>>
        ELSE SubSeq(line, CHOOSE i \in ns : \A j \in ns : i <= j,
                          CHOOSE i \in ns : \A j \in ns : i >= j)

\* the line starts with the open marker and ends with the close marker
WrappedLine(line) ==
    LET core == CoreOf(line)
        n    == Len(core)
    IN  /\ n >= 4
        /\ <<core[1], core[2], core[3], core[4]>> = <<"<", "!", "-", "-">>
        /\ <<core[n - 2], core[n - 1], core[n]>> = <<"-", "-", ">">>

\* the ghost string of a wrapped line
GhostStringOf(line) == CoreOf(SubSeq(CoreOf(line), 5, Len(CoreOf(line)) - 3))

\* the ghost strings of today's note, in the order of their lines
GhostStrings ==
    LET ghost == SelectSeq(NoteLines, WrappedLine)
    IN  [i \in 1..Len(ghost) |-> GhostStringOf(ghost[i])]

\* the whitespace-delimited tokens on the lines that are not wrapped
RECURSIVE ProseTokens(_)
ProseTokens(lines) ==
    IF lines = <<>> THEN 0
    ELSE (IF WrappedLine(Head(lines)) THEN 0 ELSE FieldsLen(Head(lines)))
         + ProseTokens(Tail(lines))

ProseWords == ProseTokens(NoteLines)

\* C12 (as claimed): a line is ghost text, left out of the word count and
\* reported as a ghost string, exactly when after trimming it starts with
\* the open marker and ends with the close marker; a partially wrapped line
\* and the lines of a comment over several lines count as prose.
C12_GhostLines ==
    /\ ghostModel.ran =>
         /\ ghostModel.wordCount = ProseWords
         /\ ghostModel.ghostText = GhostStrings
    /\ uiStats.ran =>
         \A i \in 1..Len(uiStats.notes) : uiStats.notes[i].words = ProseWords

\* C13 (as claimed): the word count of the DailyStat of a note is the
\* Content Filter's count of the note's content, the tokens of its prose
\* without the ghost lines, and it is the count the editor shows for the note.
C13_AggregatorWords ==
    /\ allStats.ran =>
         \A i \in 1..Len(allStats.dailyStats) :
           /\ allStats.dailyStats[i].words = ProseWords
           /\ ghostModel.ran => allStats.dailyStats[i].words = ghostModel.wordCount
    /\ uiStats.ran =>
         \A i \in 1..Len(uiStats.notes) :
           /\ uiStats.notes[i].words = ProseWords
           /\ ghostModel.ran => uiStats.notes[i].words = ghostModel.wordCount

\* the note of the scenario and its ghost strings
ScenarioNote == <<GhostDate, GhostPrompt, EmptyLine, ProseLine>>
ScenarioGhost ==
    << <<"2", "0", "2", "4", "-", "0", "1", "-", "0", "1">>,
       <<"P", "r", "o", "m", "p", "t", " ", "t", "e", "x", "t">> >>

\* C14 (as claimed): a note with N ghost lines and K prose words gives a word
\* count of K and N ghost strings wherever the ghost lines are; the note of
\* the scenario gives 2 words and the ghost strings 2024-01-01 and
\* Prompt text.
C14_CountsAndGhosts ==
    /\ ghostModel.ran =>
         /\ ghostModel.wordCount = ProseWords
         /\ Len(ghostModel.ghostText) = Len(SelectSeq(NoteLines, WrappedLine))
         /\ NoteLines = ScenarioNote =>
              /\ ghostModel.wordCount = 2
              /\ ghostModel.ghostText = ScenarioGhost
    /\ promptModel.ran =>
         /\ promptModel.wordCount = ProseWords
         /\ NoteLines = ScenarioNote =>
              /\ promptModel.wordCount = 2
              /\ promptModel.prompt = Join(ScenarioGhost, <<" ">>)

\* the processes whose flush of today's sidecar is in flight
Writers == {p \in Procs : procs[p].pc = "write"}

\* the durations that are durably flushed: the one of the last flush that
\* ended, and while a flush is in flight the one it writes
DurablyFlushed == {durable} \cup {procs[p].pending.typing_seconds : p \in Writers}

\* the typing seconds a pass reports for today
ReportedToday(st) ==
    LET i == CHOOSE j \in 1..Len(st.dailyStats) : st.dailyStats[j].date = today
    IN  st.dailyStats[i].typingTime

\* C15 (as claimed): a pass that runs while a flush of the day's sidecar is
\* in flight completes and reports for the day the duration persisted before
\* the flush or the one the flush writes, never another value.
C15_PassSeesFlushed ==
    [][allStats' # allStats =>
         /\ allStats'.ran
         /\ ReportedToday(allStats') \in DurablyFlushed]_vars

\* C16 (as claimed): at most one editor process edits the day at a time, and
\* no flush lowers the duration that is persisted in the day's sidecar.
C16_SingleWriter ==
    [][/\ Cardinality({p \in Procs : procs'[p].running}) <= 1
       /\ durable' >= durable]_vars

\* C17: the sidecar of the day changes only in the save and exit handlers of
\* an editor process (Ctrl+S, Ctrl+C, Esc and the write they started); a
\* tick, another key, a window event and a launch leave it alone, and an
\* aggregation pass leaves every note file and every sidecar as it was.
C17_Frame ==
    [][/\ files'[TodayIndex].sidecar # files[TodayIndex].sidecar =>
            /\ lastEvent' \in {"save", "quit"}
            /\ \E p \in Procs :
                 Proc_KeySave(p) \/ Proc_KeyQuit(p) \/ Proc_WriteFile(p)
       /\ lastEvent' \in {"tick", "key", "resize", "launch"} =>
            files'[TodayIndex].sidecar = files[TodayIndex].sidecar
       /\ allStats' # allStats => files' = files]_vars

\* a pass has run on a sidecar that one process had flushed, and then the
\* other process ticked and accrued a second: the sidecar is as the pass
\* read it
C17_Witness ==
    /\ allStats.ran
    /\ ReportedToday(allStats) > 0
    /\ lastEvent = "tick"
    /\ \E p \in Procs :
         /\ procs[p].running
         /\ procs[p].typingTime > 0
         /\ procs[p].tickDue = now + TickPeriod
         /\ procs[p].wordCount # files[TodayIndex].sidecar.word_count
    /\ files[TodayIndex].sidecar = saveStats(ReportedToday(allStats), 2)

\* the largest word count of a note of the corpus, 0 without notes
MaxWords ==
    IF NoteDays = {} THEN 0
    ELSE LET counts == {WordsOn(d) : d \in NoteDays}
         IN  CHOOSE m \in counts : \A c \in counts : c <= m

\* the earliest of the days whose note has the largest word count
EarliestBest ==
    LET best == {d \in NoteDays : WordsOn(d) = MaxWords}
    IN  CHOOSE d \in best : \A e \in best : d <= e

AveragesZero ==
    \A i \in 1..Len(view.averages) : view.averages[i].text = <<0>>

\* a float64 that is zero
IsZeroFloat(f) == f[1] = 0 /\ f[2] # 0

\* C19: for an empty corpus an aggregation pass succeeds and yields current
\* streak 0, longest streak 0, every reported average 0 and the empty
\* sentinel as most-productive day
C19_EmptyCorpus ==
    files = <<>> =>
      /\ allStats.ran =>
           /\ allStats.currentStreak = 0
           /\ allStats.longestStreak = 0
           /\ allStats.mostProductiveDay = <<>>
      /\ uiStats.ran =>
           /\ uiStats.currentStreak = 0
           /\ uiStats.longestStreak = 0
           /\ IsZeroFloat(uiStats.avgWords)
      /\ view.ran =>
           /\ ~view.panicked
           /\ AveragesZero

\* C20: on every dashboard tab no division by an active-day count raises a
\* division by zero, and with zero active days each of them yields zero
C20_GuardedDivisions ==
    view.ran =>
      /\ ~view.panicked
      /\ allStats.totalDays = 0 => AveragesZero

(***************************************************************************)
(* Failures of the corpus: claims C21 to C23                               *)
(***************************************************************************)
\* C21 (as claimed): when the notes directory cannot be read or listed the
\* aggregation pass fails with an error and returns no statistics, and the
\* dashboard ends in its error state.
C21_DirectoryError ==
    notesDir # "ok" =>
      /\ allStats.ran => allStats.error
      /\ uiStats.ran => uiStats.error
      /\ view.ran => view.error

\* the days that have a note file with a date for a name that can be read
UsableDays ==
    {d \in CorpusDays :
       \E i \in 1..Len(files) :
         files[i].name = FormatDate(d) /\ files[i].readable}

\* the words of the usable note of day d
UsableWordsOn(d) ==
    FieldsLen(files[CHOOSE i \in 1..Len(files) :
                      files[i].name = FormatDate(d)].content)

RECURSIVE SumUsableWords(_)
SumUsableWords(days) ==
    IF days = {} THEN 0
    ELSE LET d == CHOOSE x \in days : TRUE
         IN  UsableWordsOn(d) + SumUsableWords(days \ {d})

\* the longest run of consecutive days of S
LongestRun(S) ==
    LET runs == {RunEnding(S, d) : d \in S}
    IN  IF S = {} THEN 0 ELSE CHOOSE k \in runs : \A r \in runs : r <= k

\* the sum of a sequence of numbers
RECURSIVE SumNat(_)
SumNat(seq) == IF seq = <<>> THEN 0 ELSE Head(seq) + SumNat(Tail(seq))

\* the sum of the field of the buckets of a sequence
SumOf(seq, field) == SumNat([i \in 1..Len(seq) |-> seq[i][field]])

\* the sum of the active days of the month buckets
RECURSIVE SumMonthDays(_, _)
SumMonthDays(totals, keys) ==
    IF keys = {} THEN 0
    ELSE LET k == CHOOSE x \in keys : TRUE
         IN  totals[k].daysActive + SumMonthDays(totals, keys \ {k})

\* C22: a file whose name is no valid date or whose content cannot be read
\* is skipped without an error: the pass returns a DailyStat exactly for the
\* dates that have a parseable note file, and the totals, streaks and
\* buckets are those of these notes alone
C22_SkippedFiles ==
    notesDir = "ok" =>
      /\ allStats.ran =>
           /\ ~allStats.error
           /\ Len(allStats.dailyStats) = Cardinality(UsableDays)
           /\ {allStats.dailyStats[i].date :
                 i \in 1..Len(allStats.dailyStats)} = UsableDays
           /\ \A i \in 1..Len(allStats.dailyStats) :
                allStats.dailyStats[i].words =
                  UsableWordsOn(allStats.dailyStats[i].date)
           /\ allStats.totalDays = Cardinality(UsableDays)
           /\ allStats.totalWords = SumUsableWords(UsableDays)
           /\ allStats.longestStreak = LongestRun(UsableDays)
           /\ allStats.currentStreak = RunEnding(UsableDays, today)
           /\ SumOf(allStats.weeklyStats, "daysActive")
                = Cardinality(UsableDays)
           /\ SumOf(allStats.weeklyStats, "totalWords")
                = SumUsableWords(UsableDays)
           /\ SumMonthDays(allStats.monthlyTotals,
                           DOMAIN allStats.monthlyTotals)
                = Cardinality(UsableDays)
      /\ uiStats.ran =>
           /\ ~uiStats.error
           /\ Len(uiStats.notes) = Cardinality(UsableDays)
           /\ {uiStats.notes[i].date : i \in 1..Len(uiStats.notes)}
                = UsableDays
           /\ uiStats.totalDays = Cardinality(UsableDays)
           /\ uiStats.totalWords = SumUsableWords(UsableDays)
           /\ uiStats.longestStreak = LongestRun(UsableDays)
           /\ uiStats.currentStreak =
                IF today \in UsableDays THEN RunEnding(UsableDays, today)
                ELSE RunEnding(UsableDays, today - 1)
           /\ SumOf(uiStats.weeklyData, "days")
                = Cardinality(UsableDays)
           /\ SumOf(uiStats.monthlyData, "days")
                = Cardinality(UsableDays)

\* both passes ran over a listing that starts with the file of no date,
\* holds a note that cannot be read, and has a usable note after them
C22_Witness ==
    /\ notesDir = "ok"
    /\ allStats.ran /\ uiStats.ran
    /\ Len(files) = 4
    /\ files[1].name = BadName
    /\ ~files[2].readable
    /\ Cardinality(UsableDays) = 2
    /\ allStats.totalDays = 2
    /\ uiStats.totalDays = 2

\* the sidecar of the usable note of day d
SidecarOn(d) ==
    files[CHOOSE i \in 1..Len(files) : files[i].name = FormatDate(d)].sidecar

\* the seconds a pass owes to day d: those of a sidecar that holds a record
SecondsOn(d) ==
    IF SidecarOn(d).typing_seconds >= 0 THEN SidecarOn(d).typing_seconds
    ELSE 0

RECURSIVE SumSecondsOn(_)
SumSecondsOn(days) ==
    IF days = {} THEN 0
    ELSE LET d == CHOOSE x \in days : TRUE
         IN  SecondsOn(d) + SumSecondsOn(days \ {d})

\* C23: a missing, unreadable or malformed sidecar makes the typing duration
\* of its date zero and nothing else: the DailyStat of the date is produced
\* with its word count, the other dates keep their durations, and the pass
\* does not fail
C23_SidecarErrors ==
    (notesDir = "ok" /\ allStats.ran) =>
      /\ ~allStats.error
      /\ Len(allStats.dailyStats) = Cardinality(UsableDays)
      /\ \A i \in 1..Len(allStats.dailyStats) :
           LET stat == allStats.dailyStats[i]
           IN  /\ stat.date \in UsableDays
               /\ stat.words = UsableWordsOn(stat.date)
               /\ stat.typingTime = SecondsOn(stat.date)
      /\ allStats.totalTypingTime = SumSecondsOn(UsableDays)
      /\ allStats.totalWords = SumUsableWords(UsableDays)

\* a pass over a sidecar that does not decode, one that cannot be read and
\* one that holds 30 seconds
C23_Witness ==
    /\ notesDir = "ok"
    /\ allStats.ran
    /\ {SidecarOn(d) : d \in UsableDays}
         = {Malformed, NoAccess, saveStats(30, 3)}
    /\ allStats.totalDays = 3
    /\ allStats.totalWords = 11
    /\ allStats.totalTypingTime = 30

(***************************************************************************)
(* The editor and a broken sidecar: claim C24                              *)
(***************************************************************************)
\* C24: when the day's sidecar cannot be read or decoded at editor start the
\* session starts with an accumulated duration of zero and runs normally
\* from there; the failure never prevents or aborts the session
C24_StartFromZero ==
    [][/\ (lastEvent' = "launch" /\ statsFile \in {NoAccess, Malformed}) =>
            /\ running'
            /\ typingTime' = 0
            /\ tickDue' = now + TickPeriod
       /\ C1_Step
       /\ (running /\ lastEvent' # "quit") => running']_vars

\* a session that started on an undecodable sidecar has ticked one second
C24_Witness ==
    /\ running
    /\ sessions = 1
    /\ statsFile = Malformed
    /\ lastEvent = "tick"
    /\ typingTime = 1

(***************************************************************************)
(* Zero-byte notes, order, repetition, the scenario: claims C25 to C28      *)
(***************************************************************************)
\* the days whose note file is readable and holds no byte
ZeroByteDays ==
    {d \in UsableDays :
       files[CHOOSE i \in 1..Len(files) :
               files[i].name = FormatDate(d)].content = <<>>}

\* C25: a zero-byte note file with a valid date name yields a DailyStat with
\* word count 0 that is an active day: it is in the total day count and in
\* the active days of its week and month buckets, and it continues the
\* current and the longest streak
C25_ZeroByteNote ==
    (notesDir = "ok" /\ ZeroByteDays # {}) =>
      /\ allStats.ran =>
           /\ \A d \in ZeroByteDays :
                \E i \in 1..Len(allStats.dailyStats) :
                  /\ allStats.dailyStats[i].date = d
                  /\ allStats.dailyStats[i].words = 0
           /\ allStats.totalDays = Cardinality(UsableDays)
           /\ SumOf(allStats.weeklyStats, "daysActive")
                = Cardinality(UsableDays)
           /\ SumMonthDays(allStats.monthlyTotals,
                           DOMAIN allStats.monthlyTotals)
                = Cardinality(UsableDays)
           /\ allStats.currentStreak = RunEnding(UsableDays, today)
           /\ allStats.longestStreak = LongestRun(UsableDays)
      /\ uiStats.ran =>
           /\ \A d \in ZeroByteDays :
                \E i \in 1..Len(uiStats.notes) :
                  /\ uiStats.notes[i].date = d
                  /\ uiStats.notes[i].words = 0
           /\ uiStats.totalDays = Cardinality(UsableDays)
           /\ SumOf(uiStats.weeklyData, "days") = Cardinality(UsableDays)
           /\ SumOf(uiStats.monthlyData, "days") = Cardinality(UsableDays)
           /\ uiStats.currentStreak =
                IF today \in UsableDays THEN RunEnding(UsableDays, today)
                ELSE RunEnding(UsableDays, today - 1)
           /\ uiStats.longestStreak = LongestRun(UsableDays)

\* a zero-byte note on 2024-01-02 between two notes with words: both passes
\* count a streak of three days that runs through it
C25_Witness ==
    /\ notesDir = "ok"
    /\ allStats.ran /\ uiStats.ran
    /\ ZeroByteDays = {Day20240101 + 1}
    /\ UsableDays = CorpusDays
    /\ allStats.currentStreak = 3 /\ allStats.longestStreak = 3
    /\ uiStats.currentStreak = 3 /\ uiStats.longestStreak = 3
    /\ allStats.totalDays = 3

\* the dates of a sequence of daily records grow strictly
Ascending(seq) ==
    \A i \in 1..(Len(seq) - 1) : seq[i].date < seq[i + 1].date

C27_Idempotent ==
    /\ firstPass.all.ran => allStats = firstPass.all
    /\ firstPass.ui.ran => uiStats = firstPass.ui

\* both passes were repeated over notes in three weeks and two months
C27_Witness ==
    /\ firstPass.all.ran /\ firstPass.ui.ran
    /\ Len(allStats.weeklyStats) = 3
    /\ Len(uiStats.weeklyData) = 3
    /\ Len(uiStats.monthlyData) = 2
    /\ Cardinality(DOMAIN allStats.monthlyTotals) = 2

\* notes of 3 words on 2024-01-01, -02 and -03, none on -04, a note of 5
\* words on -05 and none after it, and the pass is run on 2024-01-05
ScenarioCorpus ==
    /\ today = Day20240101 + 4
    /\ NoteDays = {Day20240101, Day20240101 + 1, Day20240101 + 2,
                   Day20240101 + 4}
    /\ \A d \in Day20240101..(Day20240101 + 2) : WordsOn(d) = 3
    /\ WordsOn(Day20240101 + 4) = 5

\* C28: with notes for 2024-01-01, -02 and -03 (3 words each), no note for
\* -04 and a note for -05 (5 words), a pass run with today = 2024-01-05
\* gives current streak 1 and longest streak 3
C28_StreakScenario ==
    ScenarioCorpus =>
      /\ allStats.ran =>
           /\ allStats.currentStreak = 1
           /\ allStats.longestStreak = 3
      /\ uiStats.ran =>
           /\ uiStats.currentStreak = 1
           /\ uiStats.longestStreak = 3

\* both passes ran over the corpus of the scenario
C28_Witness ==
    /\ ScenarioCorpus
    /\ allStats.ran /\ uiStats.ran
    /\ allStats.totalDays = 4
    /\ allStats.totalWords = 14
    /\ allStats.longestStreak = 3

(***************************************************************************)
(* The modified flag and the save on exit: claim C29                       *)
(***************************************************************************)
\* the words of the note file as an editor loads them
SavedWords == IF noteFile = -1 THEN 0 ELSE noteFile

\* C29 (as claimed): the modified flag is set by every keystroke that
\* changes the buffer and cleared only by a successful save of the note, so
\* that a buffer that differs from the note file is always flagged; and when
\* the session quits with unsaved changes the note file is written with the
\* buffer before the program exits, so that no edit is lost on exit.
C29_NoEditLost ==
    [][/\ lastEvent' = "key" => modified'
       /\ (modified /\ ~modified' /\ lastEvent' # "launch") =>
            /\ lastEvent' = "save"
            /\ noteFile' = wordCount
       /\ (running' /\ ~modified') => wordCount' = SavedWords'
       /\ (lastEvent' = "quit" /\ modified) => noteFile' = wordCount]_vars

(***************************************************************************)
(* The most productive day and its sentinel: claim C30                     *)
(***************************************************************************)
\* the word counts of the DailyStats of the pass
DailyWords == {allStats.dailyStats[i].words : i \in DOMAIN allStats.dailyStats}

\* the largest of them, 0 when there is none
MaxDailyWords ==
    IF DailyWords = {} THEN 0
    ELSE CHOOSE m \in DailyWords : \A c \in DailyWords : c <= m

\* C30: after an aggregation pass the most-productive word count is the
\* largest word count of the DailyStats, 0 for an empty corpus, and the
\* most-productive day is the empty sentinel exactly when every DailyStat
\* has word count 0, also when the corpus is not empty.
C30_MostProductiveSentinel ==
    allStats.ran =>
      /\ allStats.mostProductiveWords = MaxDailyWords
      /\ Len(allStats.dailyStats) = 0 => allStats.mostProductiveWords = 0
      /\ allStats.mostProductiveDay = <<>> <=> DailyWords \subseteq {0}

\* a pass over a corpus of several notes that all hold no word
C30_Witness ==
    /\ allStats.ran
    /\ Len(files) >= 2
    /\ Len(allStats.dailyStats) = Len(files)
    /\ DailyWords = {0}
    /\ allStats.mostProductiveWords = 0
    /\ allStats.mostProductiveDay = <<>>

====
